---- MODULE Spec2Model ----
(***************************************************************************)
(* A model of estoc (src/src/main.rs): the glTF -> convex-hull converter.  *)
(*                                                                         *)
(* convert_and_write is modelled as a sequential state machine, one action *)
(* per loop iteration or call of the source.  Text (names, file names,     *)
(* OBJ lines) is a sequence of one-character strings, Option<T> is the     *)
(* empty sequence (None) or a one-element sequence (Some), and a u32 is a  *)
(* pair of 16-bit limbs <<hi, lo>> so that the full 32-bit range,         *)
(* including u32::MAX, is represented exactly.  Standard output (the       *)
(* log_success notices) is not modelled; standard error is.                *)
(***************************************************************************)
EXTENDS Integers, Sequences, FiniteSets, TLC

\* ------------------------------------------------------------------ bounds
\* Meshed nodes of the scene (nodes without a mesh are not counted).
MaxNodes == 2
\* Primitives of one mesh in the exhaustive enumeration of SpecExtract.
MaxPrims == 2
\* Hulls the decomposition service returns for one mesh group.
MaxHulls == 2
\* Triangles of the hull handed to write_mesh_to_obj in SpecObj.
MaxTris == 2

\* ----------------------------------------------------------------- Option
None == <<>>
Some(x) == <<x>>
IsSome(o) == Len(o) = 1
UnwrapOr(o, d) == IF Len(o) = 1 THEN o[1] ELSE d

Min(a, b) == IF a < b THEN a ELSE b

RECURSIVE Flatten(_)
\* Concatenation of a sequence of sequences (Vec::extend / push in a loop).
Flatten(ss) == IF ss = <<>> THEN <<>> ELSE Head(ss) \o Flatten(Tail(ss))

\* -------------------------------------------------------------------- u32
LimbBase == 2 ^ 16
U32(n) == <<n \div LimbBase, n % LimbBase>>
U32Max == <<LimbBase - 1, LimbBase - 1>>
U32Zero == <<0, 0>>

\* u < n for a small natural n (a vertex count).
U32Below(u, n) == u[1] = 0 /\ u[2] < n

\* The natural number a u32 below 2^31 stands for.
U32AsNat(u) == u[1] * LimbBase + u[2]

\* u + 1 modulo 2^32: what `tri[k] + 1` evaluates to without overflow checks.
WrappingAddOne(u) ==
    IF u[2] < LimbBase - 1 THEN <<u[1], u[2] + 1>>
    ELSE IF u[1] < LimbBase - 1 THEN <<u[1] + 1, 0>>
    ELSE U32Zero

\* Quotient and remainder of a u32 by ten, limb by limb.
U32Div10(u) == <<u[1] \div 10, ((u[1] % 10) * LimbBase + u[2]) \div 10>>
U32Mod10(u) == ((u[1] % 10) * LimbBase + u[2]) % 10

Digits == <<"0", "1", "2", "3", "4", "5", "6", "7", "8", "9">>
DigitChar(d) == Digits[d + 1]
DigitValue(c) == CHOOSE d \in 0..9 : Digits[d + 1] = c

RECURSIVE U32ToString(_)
\* Display of a u32: its decimal digits, most significant first, no sign.
U32ToString(u) ==
    IF u[1] = 0 /\ u[2] < 10 THEN <<DigitChar(u[2])>>
    ELSE U32ToString(U32Div10(u)) \o <<DigitChar(U32Mod10(u))>>

RECURSIVE UsizeToString(_)
\* Display of a usize (the hull index of enumerate()).
UsizeToString(n) ==
    IF n < 10 THEN <<DigitChar(n)>>
    ELSE UsizeToString(n \div 10) \o <<DigitChar(n % 10)>>

RECURSIVE F32ToString(_)
\* Display of an f32 that holds an integer: "-" for a negative value, then
\* the digits, with no fraction ("2", "-3").
F32ToString(x) ==
    IF x < 0 THEN <<"-">> \o F32ToString(-x) ELSE UsizeToString(x)

\* ------------------------------------------------------------------ paths
Sep == "/"
Dot == "."

\* The last position of character c in s, 0 when s does not hold it.
LastIndexOf(s, c) ==
    IF \E k \in 1..Len(s) : s[k] = c
    THEN CHOOSE k \in 1..Len(s) : s[k] = c /\ \A j \in (k + 1)..Len(s) : s[j] # c
    ELSE 0

\* Path::join: an absolute `path` replaces `directory`, otherwise it is
\* appended after a separator.
join(directory, path) ==
    IF path # <<>> /\ path[1] = Sep THEN path
    ELSE IF directory = <<>> \/ directory[Len(directory)] = Sep
         THEN directory \o path
    ELSE directory \o <<Sep>> \o path

\* Path::file_name: the final component, None for a path ending in "..".
\* (The paths built here never end in a separator or in ".".)
file_name(path) ==
    LET name == SubSeq(path, LastIndexOf(path, Sep) + 1, Len(path))
    IN  IF name = <<>> \/ name = <<Dot, Dot>> THEN None ELSE Some(name)

\* Path::file_stem: the file name up to its LAST dot; the whole name when it
\* has no dot or when its only dot is the first character.
file_stem(path) ==
    LET fname == file_name(path)
    IN  IF fname = None THEN None
        ELSE LET name == fname[1]
                 d == LastIndexOf(name, Dot)
             IN  IF d <= 1 THEN Some(name) ELSE Some(SubSeq(name, 1, d - 1))

\* A set_extension that appends the extension to the whole file name.
set_extension_appending(path, extension) ==
    IF extension = <<>> THEN path ELSE path \o <<Dot>> \o extension

\* PathBuf::set_extension: the path is cut right after the file stem, then
\* "." and the extension are pushed.
set_extension(path, extension) ==
    LET stem == file_stem(path)
    IN  IF stem = None THEN path
        ELSE LET cut == SubSeq(path, 1, LastIndexOf(path, Sep) + Len(stem[1]))
             IN  IF extension = <<>> THEN cut ELSE cut \o <<Dot>> \o extension

\* ------------------------------------------------------- mesh extraction
\* reader.read_positions() of every primitive, pushed onto verts (85-94).
ReadPositions(primitives) ==
    Flatten([k \in 1..Len(primitives) |->
                UnwrapOr(primitives[k].positions, <<>>)])

\* A reading of the index streams that skips a primitive without positions.
ReadIndicesOfPositioned(primitives) ==
    Flatten([k \in 1..Len(primitives) |->
                IF IsSome(primitives[k].positions)
                THEN UnwrapOr(primitives[k].indices, <<>>) ELSE <<>>])

\* reader.read_indices() of every primitive, pushed onto indices (96-100):
\* read whether or not the primitive had a position stream.
ReadIndices(primitives) ==
    Flatten([k \in 1..Len(primitives) |->
                UnwrapOr(primitives[k].indices, <<>>)])

\* slice::chunks(n): consecutive chunks of n elements, the last one shorter
\* when n does not divide the length.
chunks(s, n) ==
    [k \in 1..((Len(s) + n - 1) \div n) |->
        SubSeq(s, (k - 1) * n + 1, Min(k * n, Len(s)))]

\* Lines 80-107 for one mesh: the vertex and index buffers and the triangle
\* list.  `[c[0], c[1], c[2]]` panics (index out of bounds) on a chunk
\* shorter than 3; the triangles pushed before that are lost with the run.
ExtractMesh(primitives) ==
    LET verts == ReadPositions(primitives)
        indices == ReadIndices(primitives)
        cs == chunks(indices, 3)
    IN  IF \E k \in 1..Len(cs) : Len(cs[k]) < 3
        THEN [panicked |-> TRUE, verts |-> verts, indices |-> indices,
              tris |-> <<>>]
        ELSE [panicked |-> FALSE, verts |-> verts, indices |-> indices,
              tris |-> [k \in 1..Len(cs) |-> <<cs[k][1], cs[k][2], cs[k][3]>>]]

\* Lines 109-136 for a node without rotation (identity quaternion, so the
\* Euler angles and the isometry's rotation are zero): each vertex is scaled
\* component-wise, then translated.
ApplyTransform(verts, transform) ==
    [k \in 1..Len(verts) |->
        <<verts[k][1] * transform.scale[1] + transform.translation[1],
          verts[k][2] * transform.scale[2] + transform.translation[2],
          verts[k][3] * transform.scale[3] + transform.translation[3]>>]

NewObj == <<"N", "e", "w", " ", "O", "b", "j">>
UnknownShape ==
    <<"U", "n", "k", "n", "o", "w", "n", " ", "S", "h", "a", "p", "e">>
DefaultAppend == <<"-", "s", "h", "a", "p", "e">>

\* m.name().unwrap_or("New Obj") (138).
MeshName(mesh) == UnwrapOr(mesh.name, NewObj)

\* ------------------------------------------------------------ aggregation
\* A fusion that keeps only the first mesh's vertices.
combine_first_verts(all_shapes) ==
    <<IF all_shapes = <<>> THEN <<>> ELSE all_shapes[1][1],
      Flatten([k \in 1..Len(all_shapes) |-> all_shapes[k][2]])>>

\* Lines 151-162: verts.extend(&v.0); tris.extend(&v.1) for every shape, in
\* order.  The triangles are appended as they are: no offset is added.
combine(all_shapes) ==
    <<Flatten([k \in 1..Len(all_shapes) |-> all_shapes[k][1]]),
      Flatten([k \in 1..Len(all_shapes) |-> all_shapes[k][2]])>>

\* Lines 147-167: one fused group, or every shape as its own group.
compose(args, all_shapes) ==
    IF args.combine_meshes THEN <<combine(all_shapes)>> ELSE all_shapes

\* shape_names.get(i).unwrap_or(&default_name) (175-176), i counted from 0.
hull_name_base(shape_names, i) ==
    IF i + 1 <= Len(shape_names) THEN shape_names[i + 1] ELSE UnknownShape

\* format!("{}{}", hull_name_base, hull_i) (180).
name_w_index(base, hull_i) == base \o UsizeToString(hull_i)

\* ---------------------------------------------------------------- emitters
Ext_obj == <<"o", "b", "j">>
Ext_json == <<"j", "s", "o", "n">>

\* format!("v {} {} {}", v.x, v.y, v.z) (280).
VertexLine(v) ==
    <<"v", " ">> \o F32ToString(v[1]) \o <<" ">> \o F32ToString(v[2])
        \o <<" ">> \o F32ToString(v[3])

\* format!("f {} {} {}", tri[0] + 1, tri[1] + 1, tri[2] + 1) (285), for a
\* triangle whose additions do not trap.
FaceLine(tri) ==
    <<"f", " ">> \o U32ToString(WrappingAddOne(tri[1])) \o <<" ">>
        \o U32ToString(WrappingAddOne(tri[2])) \o <<" ">>
        \o U32ToString(WrappingAddOne(tri[3]))

\* Whether `tri[k] + 1` overflows u32 for some component of the triangle.
AddOverflows(tri) == \E k \in 1..3 : tri[k] = U32Max

\* The file name of both writers (230-232, 289-291).
OutFileName(directory, name, append, extension) ==
    set_extension(join(directory, name \o append), extension)

NL == "\n"

\* The bytes the write loop (298-303) hands to the file: every line, each
\* followed by "\n", in two write calls per line.
FileBytes(file_cont) ==
    Flatten([k \in 1..Len(file_cont) |-> file_cont[k] \o <<NL>>])

\* write_mesh_to_obj (268-306).  io.create_error: the io::Error of
\* File::create, None when it succeeds.  io.room: None, or Some(n) when the
\* file system takes only n more bytes of this file (a size limit, a full
\* disk).  file.write's byte count is ignored (299, 301): the write that
\* meets the limit is short and returns Ok, the next write returns Err and
\* expect panics, so the file keeps the first n bytes, which may end in the
\* middle of a line or between a line and its "\n".  overflow_checks is the
\* build's setting: with it `tri[k] + 1` panics on u32::MAX, without it the
\* sum wraps to 0.  The result names the file, whether it was created (and
\* so truncated) and the bytes that reached it.
write_mesh_to_obj(directory, name, append, shape, io, overflow_checks) ==
    LET filename == OutFileName(directory, name, append, Ext_obj)
        file_cont == <<(<<"o", " ">> \o name)>>
                       \o [k \in 1..Len(shape[1]) |-> VertexLine(shape[1][k])]
                       \o [k \in 1..Len(shape[2]) |-> FaceLine(shape[2][k])]
        bytes == FileBytes(file_cont)
    IN  IF overflow_checks /\ \E k \in 1..Len(shape[2]) : AddOverflows(shape[2][k])
        THEN [result |-> "panic", error |-> None, filename |-> filename,
              created |-> FALSE, bytes |-> <<>>]
        ELSE IF io.create_error # None
        THEN [result |-> "Err", error |-> io.create_error,
              filename |-> filename, created |-> FALSE, bytes |-> <<>>]
        ELSE IF io.room # None /\ io.room[1] < Len(bytes)
        THEN [result |-> "panic", error |-> None, filename |-> filename,
              created |-> TRUE, bytes |-> SubSeq(bytes, 1, io.room[1])]
        ELSE [result |-> "Ok", error |-> None, filename |-> filename,
              created |-> TRUE, bytes |-> bytes]

\* A triangle serialisation that writes 1-based indices, as the OBJ path does.
SerdeTriOneBased(tri) ==
    <<U32ToString(WrappingAddOne(tri[1])), U32ToString(WrappingAddOne(tri[2])),
      U32ToString(WrappingAddOne(tri[3]))>>

\* serde_json's rendering of a [u32; 3]: the three numbers in decimal,
\* unchanged (215, 249).
SerdeTri(tri) ==
    <<U32ToString(tri[1]), U32ToString(tri[2]), U32ToString(tri[3])>>

\* serde_json's rendering of an f32 that holds an integer ("2.0").
SerdeF32(x) == F32ToString(x) \o <<".", "0">>

\* SerdeShape for one hull (237-252).
SerdeShape(shape) ==
    [points |-> [k \in 1..Len(shape[1]) |->
                    [x |-> SerdeF32(shape[1][k][1]),
                     y |-> SerdeF32(shape[1][k][2]),
                     z |-> SerdeF32(shape[1][k][3])]],
     tris |-> [k \in 1..Len(shape[2]) |-> SerdeTri(shape[2][k])]]

\* write_meshes_to_json (223-266).  io.create_error as above; io.room other
\* than None: write_all fails, which panics and leaves a created file with
\* an incomplete document (the document's text is not modelled).
write_meshes_to_json(directory, name, append, shapes, io) ==
    LET filename == OutFileName(directory, name, append, Ext_json)
        serde_shapes == [k \in 1..Len(shapes) |-> SerdeShape(shapes[k])]
    IN  IF io.create_error # None
        THEN [result |-> "Err", error |-> io.create_error,
              filename |-> filename, created |-> FALSE, complete |-> FALSE,
              shapes |-> <<>>]
        ELSE IF io.room # None
        THEN [result |-> "panic", error |-> None, filename |-> filename,
              created |-> TRUE, complete |-> FALSE, shapes |-> <<>>]
        ELSE [result |-> "Ok", error |-> None, filename |-> filename,
              created |-> TRUE, complete |-> TRUE, shapes |-> serde_shapes]

\* ------------------------------------------------------------------ inputs
T012 == <<U32(0), U32(1), U32(2)>>
T023 == <<U32(0), U32(2), U32(3)>>

\* One position stream: the three corners of a triangle.
TriPos == <<<<0, 0, 0>>, <<1, 0, 0>>, <<0, 1, 0>>>>

\* Index streams of length 3, 4 and 2.
IndexStreams ==
    {None, Some(T012), Some(<<U32(0), U32(1), U32(2), U32(0)>>),
     Some(<<U32(2), U32(1)>>)}
PositionStreams == {None, Some(TriPos)}
Primitives == [positions : PositionStreams, indices : IndexStreams]

\* Every primitive list of at most n primitives.
PrimitiveLists(n) == UNION {[1..k -> Primitives] : k \in 0..n}

Prim(positions, indices) == [positions |-> positions, indices |-> indices]
Identity == [translation |-> <<0, 0, 0>>, scale |-> <<1, 1, 1>>]
Moved == [translation |-> <<3, 0, -1>>, scale |-> <<2, 1, 1>>]
NameAB == <<"a", ".", "b">>

MeshNode(name, primitives, transform) ==
    [mesh |-> Some([name |-> name, primitives |-> primitives]),
     transform |-> transform]

\* The nodes a scene is made of: a node without a mesh; an unnamed
\* one-triangle mesh; a named mesh of three primitives, the second without
\* an index stream; a named mesh whose only primitive has indices but no
\* positions; a mesh with an index stream of length 4.
NodeInputs ==
    {[mesh |-> None, transform |-> Identity],
     MeshNode(None, <<Prim(Some(TriPos), Some(T012))>>, Identity),
     MeshNode(Some(NameAB),
              <<Prim(Some(TriPos), Some(T012)), Prim(Some(TriPos), None),
                Prim(Some(TriPos), Some(T012))>>,
              Moved),
     MeshNode(Some(NameAB), <<Prim(None, Some(T012))>>, Identity),
     MeshNode(None,
              <<Prim(Some(TriPos), Some(<<U32(0), U32(1), U32(2), U32(0)>>))>>,
              Identity)}

\* --append: absent (so "-shape"), or a suffix that holds a dot.
AppendInputs == {None, Some(<<".", "x">>)}

OutDir == <<"o", "u", "t">>
\* input_path.file_name() (192-197).
InputFileName == <<"s", ".", "g", "l", "t", "f">>

\* Paths at which File::create fails in a run whose output directory already
\* holds directories of these names (both carry the default suffix).
BlockedPaths ==
    {OutFileName(OutDir, name_w_index(NewObj, 0), DefaultAppend, Ext_obj),
     OutFileName(OutDir, InputFileName, DefaultAppend, Ext_json)}

\* The io::Error text of a File::create that finds a directory at the path.
IsADirectory == "Is a directory (os error 21)"

\* File::create at a path: its io::Error, None when it succeeds.
CreateError(blocked, filename) ==
    IF filename \in blocked THEN Some(IsADirectory) ELSE None

\* The j-th hull (j from 1) the decomposition service returns for group i:
\* four points placed by i and j, one or two triangles.  The service is
\* external; any hull list of at most max_convex_hulls hulls is a result.
HullOf(i, j) ==
    <<<<<<i, j, 0>>, <<i + 1, j, 0>>, <<i, j + 1, 0>>, <<i, j, 1>>>>,
      IF j % 2 = 1 THEN <<T012>> ELSE <<T012, T023>>>>

\* Sample u32 values: small ones, both sides of the limb boundary, and the
\* two largest.
U32Samples ==
    {U32(0), U32(2), <<0, LimbBase - 1>>, <<1, 0>>,
     <<LimbBase - 1, LimbBase - 2>>, U32Max}
TriSamples ==
    {<<s, U32(0), U32(1)>> : s \in U32Samples}
        \cup {<<U32(2), U32(1), s>> : s \in U32Samples}
TriLists(n) == UNION {[1..k -> TriSamples] : k \in 0..n}

\* ------------------------------------------------------------------- state
VARIABLES
    args,                \* the parsed command line (Args)
    unwritable,          \* environment: the paths File::create fails on
    pc,                  \* position in convert_and_write
    panic_cause,         \* what aborted the process, "" while it runs
    scene,               \* history: the meshed nodes read so far
    all_shapes,          \* (verts, tris) per meshed node (66)
    shape_names,         \* the display names (67)
    shape_vec_composed,  \* the mesh groups handed to decomposition (147)
    i,                   \* index of the group being decomposed (171)
    decomposed_hulls,    \* the hulls of group i (173)
    hull_i,              \* index of the hull being written (179)
    json_vec_decomposed, \* the hulls collected for the JSON document (169)
    obj_files,           \* file system: path -> bytes, the .obj files
    json_files,          \* file system: path -> document, the .json files
    stderr,              \* the eprintln! lines: the io::Error texts
    obj_calls,           \* history: the calls of write_mesh_to_obj
    json_calls,          \* history: the calls of write_meshes_to_json
    hull_log,            \* history: the hull list of every decomposed group
    call                 \* a single function call (SpecExtract, SpecObj)

vars ==
    <<args, unwritable, pc, panic_cause, scene, all_shapes, shape_names,
      shape_vec_composed, i, decomposed_hulls, hull_i, json_vec_decomposed,
      obj_files, json_files, stderr, obj_calls, json_calls, hull_log, call>>

NoFiles == [p \in {} |-> <<>>]

\* Everything but args, unwritable, pc and call, as convert_and_write starts.
Fresh ==
    /\ panic_cause = ""
    /\ scene = <<>>
    /\ all_shapes = <<>>
    /\ shape_names = <<>>
    /\ shape_vec_composed = <<>>
    /\ i = 0
    /\ decomposed_hulls = <<>>
    /\ hull_i = 0
    /\ json_vec_decomposed = <<>>
    /\ obj_files = NoFiles
    /\ json_files = NoFiles
    /\ stderr = <<>>
    /\ obj_calls = <<>>
    /\ json_calls = <<>>
    /\ hull_log = <<>>

Init ==
    /\ args \in [append : AppendInputs, json_only : BOOLEAN,
                 combine_meshes : BOOLEAN, max_hulls : {MaxHulls}]
    /\ unwritable \in IF args.append = None THEN {{}, BlockedPaths} ELSE {{}}
    /\ pc = "walk"
    /\ call = <<>>
    /\ Fresh

append == UnwrapOr(args.append, DefaultAppend)

\* ------------------------------------------------------- convert_and_write
\* The process aborts: a panic unwinds out of main.
Abort(cause) ==
    /\ pc' = "panicked"
    /\ panic_cause' = cause

\* One iteration of `for node in scene.nodes()` (77-144): the next node of
\* the scene is read; a node without a mesh is passed over, a mesh is
\* extracted, transformed and pushed with its name.
WalkNode ==
    /\ pc = "walk"
    /\ Len(scene) < MaxNodes
    /\ \E node \in NodeInputs :
        IF node.mesh = None
        THEN UNCHANGED <<pc, panic_cause, scene, all_shapes, shape_names>>
        ELSE /\ scene' = Append(scene, node)
             /\ LET m == node.mesh[1]
                    r == ExtractMesh(m.primitives)
                IN  IF r.panicked
                    THEN /\ Abort("chunks")
                         /\ UNCHANGED <<all_shapes, shape_names>>
                    ELSE /\ all_shapes' =
                              Append(all_shapes,
                                     <<ApplyTransform(r.verts, node.transform),
                                       r.tris>>)
                         /\ shape_names' = Append(shape_names, MeshName(m))
                         /\ UNCHANGED <<pc, panic_cause>>
    /\ UNCHANGED <<args, unwritable, shape_vec_composed, i, decomposed_hulls,
                   hull_i, json_vec_decomposed, obj_files, json_files, stderr,
                   obj_calls, json_calls, hull_log, call>>

\* The scene has no more nodes: lines 147-169.  With combine_meshes the
\* shapes are moved out of all_shapes (into_iter), otherwise cloned.
Aggregate ==
    /\ pc = "walk"
    /\ shape_vec_composed' = compose(args, all_shapes)
    /\ all_shapes' = IF args.combine_meshes THEN <<>> ELSE all_shapes
    /\ i' = 0
    /\ pc' = "decompose"
    /\ UNCHANGED <<args, unwritable, panic_cause, scene, shape_names,
                   decomposed_hulls, hull_i, json_vec_decomposed, obj_files,
                   json_files, stderr, obj_calls, json_calls, hull_log, call>>

\* VHACD::decompose and compute_exact_convex_hulls for group i (172-173):
\* the service panics, or returns at most max_convex_hulls hulls.  With
\* json_only the hulls are appended to json_vec_decomposed (187) and the
\* loop goes on; otherwise the hull loop (179) starts.
Decompose ==
    /\ pc = "decompose"
    /\ i < Len(shape_vec_composed)
    /\ \/ /\ Abort("decompose")
          /\ UNCHANGED <<i, decomposed_hulls, hull_i, json_vec_decomposed,
                         hull_log>>
       \/ \E n \in 0..args.max_hulls :
            LET hulls == [j \in 1..n |-> HullOf(i, j)]
            IN  /\ hull_log' = Append(hull_log, hulls)
                /\ panic_cause' = panic_cause
                /\ IF args.json_only
                   THEN /\ json_vec_decomposed' = json_vec_decomposed \o hulls
                        /\ i' = i + 1
                        /\ UNCHANGED <<pc, decomposed_hulls, hull_i>>
                   ELSE /\ decomposed_hulls' = hulls
                        /\ hull_i' = 0
                        /\ pc' = "write_obj"
                        /\ UNCHANGED <<i, json_vec_decomposed>>
    /\ UNCHANGED <<args, unwritable, scene, all_shapes, shape_names,
                   shape_vec_composed, obj_files, json_files, stderr,
                   obj_calls, json_calls, call>>

\* One iteration of the hull loop (179-185): write_mesh_to_obj for hull
\* hull_i of group i; an Err is printed (the io::Error alone, without the
\* file's name) and the loop goes on, a panic inside the writer aborts the
\* process.  A write can fail after any number of bytes.  The build's
\* overflow setting is drawn only for a hull that holds an index of
\* u32::MAX: for any other hull both builds run the same code.
WriteHull ==
    /\ pc = "write_obj"
    /\ hull_i < Len(decomposed_hulls)
    /\ LET hull == decomposed_hulls[hull_i + 1]
           name == name_w_index(hull_name_base(shape_names, i), hull_i)
           filename == OutFileName(OutDir, name, append, Ext_obj)
           create_error == CreateError(unwritable, filename)
           size == Len(write_mesh_to_obj(OutDir, name, append, hull,
                                         [create_error |-> None, room |-> None],
                                         FALSE).bytes)
       IN  \E room \in {None} \cup {Some(n) : n \in 0..(size - 1)},
              overflow_checks \in
                  IF \E k \in 1..Len(hull[2]) : AddOverflows(hull[2][k])
                  THEN BOOLEAN ELSE {FALSE} :
             \E r \in {write_mesh_to_obj(OutDir, name, append, hull,
                                          [create_error |-> create_error,
                                           room |-> room],
                                          overflow_checks)} :
                 /\ obj_calls' =
                        Append(obj_calls,
                               [group |-> i, hull_i |-> hull_i, name |-> name,
                                filename |-> r.filename, result |-> r.result])
                 /\ obj_files' = IF r.created
                                 THEN (r.filename :> r.bytes) @@ obj_files
                                 ELSE obj_files
                 /\ stderr' = IF r.result = "Err"
                              THEN Append(stderr, r.error[1])
                              ELSE stderr
                 /\ IF r.result = "panic"
                    THEN Abort("write_mesh_to_obj") /\ hull_i' = hull_i
                    ELSE hull_i' = hull_i + 1 /\ UNCHANGED <<pc, panic_cause>>
    /\ UNCHANGED <<args, unwritable, scene, all_shapes, shape_names,
                   shape_vec_composed, i, decomposed_hulls,
                   json_vec_decomposed, json_files, json_calls, hull_log, call>>

\* The hull loop of group i is over: the group loop goes on (171).
NextGroup ==
    /\ pc = "write_obj"
    /\ hull_i = Len(decomposed_hulls)
    /\ i' = i + 1
    /\ pc' = "decompose"
    /\ UNCHANGED <<args, unwritable, panic_cause, scene, all_shapes,
                   shape_names, shape_vec_composed, decomposed_hulls, hull_i,
                   json_vec_decomposed, obj_files, json_files, stderr,
                   obj_calls, json_calls, hull_log, call>>

\* The group loop is over and json_only is not set: convert_and_write
\* returns (191, 203).
Return ==
    /\ pc = "decompose"
    /\ i = Len(shape_vec_composed)
    /\ ~args.json_only
    /\ pc' = "done"
    /\ UNCHANGED <<args, unwritable, panic_cause, scene, all_shapes,
                   shape_names, shape_vec_composed, i, decomposed_hulls,
                   hull_i, json_vec_decomposed, obj_files, json_files, stderr,
                   obj_calls, json_calls, hull_log, call>>

\* The group loop is over and json_only is set (191-202): the one call of
\* write_meshes_to_json; an Err is printed (the io::Error alone), a failed
\* write_all panics.
WriteJson ==
    /\ pc = "decompose"
    /\ i = Len(shape_vec_composed)
    /\ args.json_only
    /\ \E room \in {None, Some(0)} :
         LET filename == OutFileName(OutDir, InputFileName, append, Ext_json)
             r == write_meshes_to_json(OutDir, InputFileName, append,
                                       json_vec_decomposed,
                                       [create_error |->
                                            CreateError(unwritable, filename),
                                        room |-> room])
         IN  /\ json_calls' =
                    Append(json_calls,
                           [filename |-> r.filename, result |-> r.result])
             /\ json_files' = IF r.created
                              THEN (r.filename :>
                                      [complete |-> r.complete,
                                       shapes |-> r.shapes]) @@ json_files
                              ELSE json_files
             /\ stderr' = IF r.result = "Err"
                          THEN Append(stderr, r.error[1])
                          ELSE stderr
             /\ IF r.result = "panic"
                THEN Abort("write_meshes_to_json")
                ELSE pc' = "done" /\ panic_cause' = panic_cause
    /\ UNCHANGED <<args, unwritable, scene, all_shapes, shape_names,
                   shape_vec_composed, i, decomposed_hulls, hull_i,
                   json_vec_decomposed, obj_files, obj_calls, hull_log, call>>

Next ==
    \/ WalkNode
    \/ Aggregate
    \/ Decompose
    \/ WriteHull
    \/ NextGroup
    \/ Return
    \/ WriteJson

Spec == Init /\ [][Next]_vars

\* ------------------------------------------------- single function calls
\* The mesh extraction of lines 80-107 applied to one mesh, for every
\* primitive list of at most MaxPrims primitives.
InitExtract ==
    /\ args = [append |-> None, json_only |-> FALSE, combine_meshes |-> FALSE,
               max_hulls |-> MaxHulls]
    /\ unwritable = {}
    /\ pc = "call"
    /\ call \in [fn : {"ExtractMesh"}, arg : PrimitiveLists(MaxPrims),
                 ret : {None}]
    /\ Fresh

CallExtractMesh ==
    /\ pc = "call"
    /\ call.fn = "ExtractMesh"
    /\ call' = [call EXCEPT !.ret = Some(ExtractMesh(call.arg))]
    /\ pc' = "returned"
    /\ UNCHANGED <<args, unwritable, panic_cause, scene, all_shapes,
                   shape_names, shape_vec_composed, i, decomposed_hulls,
                   hull_i, json_vec_decomposed, obj_files, json_files, stderr,
                   obj_calls, json_calls, hull_log>>

NextExtract == CallExtractMesh

SpecExtract == InitExtract /\ [][NextExtract]_vars

\* write_mesh_to_obj applied to one hull: any triangle list of at most
\* MaxTris triangles over the sampled u32 values, under either build setting.
InitObj ==
    /\ args = [append |-> None, json_only |-> FALSE, combine_meshes |-> FALSE,
               max_hulls |-> MaxHulls]
    /\ unwritable = {}
    /\ pc = "call"
    /\ call \in [fn : {"write_mesh_to_obj"},
                 arg : [name : {name_w_index(NewObj, 0)},
                        shape : {<<TriPos, tris>> : tris \in TriLists(MaxTris)},
                        overflow_checks : BOOLEAN],
                 ret : {None}]
    /\ Fresh

CallWriteMeshToObj ==
    /\ pc = "call"
    /\ call.fn = "write_mesh_to_obj"
    /\ call' = [call EXCEPT !.ret =
                   Some(write_mesh_to_obj(OutDir, call.arg.name, append,
                                          call.arg.shape,
                                          [create_error |-> None, room |-> None],
                                          call.arg.overflow_checks))]
    /\ pc' = "returned"
    /\ UNCHANGED <<args, unwritable, panic_cause, scene, all_shapes,
                   shape_names, shape_vec_composed, i, decomposed_hulls,
                   hull_i, json_vec_decomposed, obj_files, json_files, stderr,
                   obj_calls, json_calls, hull_log>>

NextObj == CallWriteMeshToObj

SpecObj == InitObj /\ [][NextObj]_vars

\* ------------------------------------------------- reading the output back
U32MulTenAdd(u, d) ==
    <<u[1] * 10 + (u[2] * 10 + d) \div LimbBase, (u[2] * 10 + d) % LimbBase>>

RECURSIVE ParseFrom(_, _)
ParseFrom(acc, digits) ==
    IF digits = <<>> THEN acc
    ELSE ParseFrom(U32MulTenAdd(acc, DigitValue(Head(digits))), Tail(digits))

\* The number a decimal numeral (of at most 32 bits) stands for.
ParseU32(digits) == ParseFrom(U32Zero, digits)

\* n - 1 = u over the integers, for a parsed numeral n and a u32 u.
MinusOneIs(n, u) == n # U32Zero /\ WrappingAddOne(u) = n /\ u # U32Max

RECURSIVE Split(_, _)
\* The fields of a text between occurrences of a separator character.
Split(text, sep) ==
    IF \E k \in 1..Len(text) : text[k] = sep
    THEN LET k == CHOOSE k \in 1..Len(text) :
                    text[k] = sep /\ \A j \in 1..(k - 1) : text[j] # sep
         IN  <<SubSeq(text, 1, k - 1)>>
                \o Split(SubSeq(text, k + 1, Len(text)), sep)
    ELSE <<text>>

\* The face records of an OBJ file, in file order, each as its three numerals.
FaceRecords(bytes) ==
    LET faces == SelectSeq(Split(bytes, NL), LAMBDA l : l # <<>> /\ l[1] = "f")
    IN  [k \in 1..Len(faces) |-> Tail(Split(faces[k], " "))]

\* ----------------------------------------------------- what the claims use
\* The mesh groups exist: lines 147-167 have run.
Aggregated ==
    \/ pc \in {"decompose", "write_obj", "done"}
    \/ pc = "panicked" /\ panic_cause # "chunks"

\* The world mesh of a meshed node that was read: its extracted vertices,
\* transformed, and its triangles.
WorldMesh(node) ==
    LET r == ExtractMesh(node.mesh[1].primitives)
    IN  <<ApplyTransform(r.verts, node.transform), r.tris>>

RECURSIVE PositionCount(_)
\* The number of positions the primitives' position streams hold.
PositionCount(primitives) ==
    IF primitives = <<>> THEN 0
    ELSE Len(UnwrapOr(Head(primitives).positions, <<>>))
            + PositionCount(Tail(primitives))

RECURSIVE VertexCountUpTo(_, _)
\* The vertices of the first k meshed nodes of the scene.
VertexCountUpTo(nodes, k) ==
    IF k = 0 THEN 0
    ELSE VertexCountUpTo(nodes, k - 1)
            + PositionCount(nodes[k].mesh[1].primitives)

\* A triangle with each index raised by a vertex-count offset.
Rebased(tri, offset) ==
    <<U32(U32AsNat(tri[1]) + offset), U32(U32AsNat(tri[2]) + offset),
      U32(U32AsNat(tri[3]) + offset)>>

\* The fused mesh the aggregation contract describes: all world vertices in
\* node order, the k-th mesh's triangles raised by the vertex count of the
\* meshes before it.
RebasedCombination(nodes) ==
    <<Flatten([k \in 1..Len(nodes) |-> WorldMesh(nodes[k])[1]]),
      Flatten([k \in 1..Len(nodes) |->
                  LET tris == WorldMesh(nodes[k])[2]
                  IN  [t \in 1..Len(tris) |->
                          Rebased(tris[t], VertexCountUpTo(nodes, k - 1))]])>>

\* Every index stream of the mesh has a length that is a multiple of 3 and
\* holds only indices of positions of its own primitive.
WellFormed(primitives) ==
    \A k \in 1..Len(primitives) :
        LET ps == UnwrapOr(primitives[k].positions, <<>>)
            ix == UnwrapOr(primitives[k].indices, <<>>)
        IN  /\ Len(ix) % 3 = 0
            /\ \A j \in 1..Len(ix) : U32Below(ix[j], Len(ps))

\* The hulls of all decomposed groups, in group order and hull order.
AllHulls == Flatten(hull_log)

\* The standard-error lines printed up to now.
Reports == Len(stderr)

\* The calls of write_mesh_to_obj so far that did not end Ok.
FailedHullWrites ==
    Cardinality({k \in 1..Len(obj_calls) : obj_calls[k].result # "Ok"})

\* ----------------------------------------------------------------- claims

\* C1: with combine_meshes, the combined mesh is the concatenation of all
\* world meshes' vertices in node order, and the k-th mesh's triangles appear
\* in it with every index raised by the vertex count of meshes 0..k-1.
C1_CombinedTrianglesAreRebased ==
    (Aggregated /\ args.combine_meshes)
        => shape_vec_composed = <<RebasedCombination(scene)>>

\* The standard-error line that would name a malformed mesh.
MalformedMeshReport == "MalformedMesh"

\* C2: a meshed node whose concatenated index stream has a length that is
\* not a multiple of 3 is reported as a MalformedMesh and does not abort the
\* run.
C2_MalformedMeshIsReportedAndSkipped ==
    \A k \in 1..Len(scene) :
        Len(ReadIndices(scene[k].mesh[1].primitives)) % 3 # 0
            => /\ panic_cause # "chunks"
               /\ \E j \in 1..Len(stderr) : stderr[j] = MalformedMeshReport

\* C3: a hull written by write_mesh_to_obj has one face record per triangle,
\* in triangle order, and each face index minus 1 is the triangle's 0-based
\* index, whatever u32 value that index has.
C3_ObjFaceIndicesRoundTrip ==
    (pc = "returned" /\ call.fn = "write_mesh_to_obj"
        /\ call.ret[1].result = "Ok")
        => LET tris == call.arg.shape[2]
               faces == FaceRecords(call.ret[1].bytes)
           IN  /\ Len(faces) = Len(tris)
               /\ \A k \in 1..Len(tris) : \A c \in 1..3 :
                    MinusOneIs(ParseU32(faces[k][c]), tris[k][c])

\* C4: the file of hull hull_i of a group is named exactly
\* <group-display-name><hull_i><append-suffix>.obj in the output directory.
C4_HullFileNameIsNameIndexSuffix ==
    \A k \in 1..Len(obj_calls) :
        obj_calls[k].filename =
            set_extension_appending(
                join(OutDir,
                     hull_name_base(shape_names, obj_calls[k].group)
                        \o UsizeToString(obj_calls[k].hull_i) \o append),
                Ext_obj)

\* C5: two different hulls of one run are written to two different paths.
C5_HullFilesAreDistinct ==
    \A j, k \in 1..Len(obj_calls) :
        (j # k /\ obj_calls[j].result = "Ok" /\ obj_calls[k].result = "Ok")
            => obj_calls[j].filename # obj_calls[k].filename

\* C6: a failure writing one hull's file, at creation or at a line, is
\* reported (one standard-error line per failed file), the run goes on, and
\* a finished run has attempted every hull of every group.
C6_HullWriteFailureIsIsolated ==
    /\ panic_cause # "write_mesh_to_obj"
    /\ Reports >= FailedHullWrites
    /\ (pc = "done" /\ ~args.json_only) => Len(obj_calls) = Len(AllHulls)

\* C7: the output modes exclude each other for a whole run.  With json_only
\* no OBJ file is written and write_meshes_to_json is called exactly once,
\* when every group has been decomposed; the document it writes lists the
\* hulls of all groups in group and hull order with their 0-based triangle
\* indices unchanged, so with combine_meshes the hulls of the single group.
\* Without json_only no JSON document is written.
C7_OutputModesAreExclusive ==
    /\ args.json_only => (obj_calls = <<>> /\ obj_files = NoFiles)
    /\ ~args.json_only => (json_calls = <<>> /\ json_files = NoFiles)
    /\ Len(json_calls) <= 1
    /\ (args.json_only /\ pc = "done") => Len(json_calls) = 1
    /\ json_calls # <<>> => Len(hull_log) = Len(shape_vec_composed)
    /\ \A k \in 1..Len(json_calls) :
          json_calls[k].result = "Ok"
              => /\ DOMAIN json_files = {json_calls[k].filename}
                 /\ json_files[json_calls[k].filename].complete
    /\ \A p \in DOMAIN json_files :
          json_files[p].complete
              => LET shapes == json_files[p].shapes
                 IN  /\ Len(shapes) = Len(AllHulls)
                     /\ args.combine_meshes
                          => (Len(hull_log) = 1 /\ Len(shapes) = Len(hull_log[1]))
                     /\ \A h \in 1..Len(shapes) :
                          /\ Len(shapes[h].points) = Len(AllHulls[h][1])
                          /\ Len(shapes[h].tris) = Len(AllHulls[h][2])
                          /\ \A t \in 1..Len(shapes[h].tris) : \A c \in 1..3 :
                                ParseU32(shapes[h].tris[t][c])
                                    = AllHulls[h][2][t][c]

\* C7's case: a finished json_only run with combine_meshes over two meshed
\* nodes whose document holds two hulls.
C7_Witness ==
    /\ pc = "done"
    /\ args.json_only
    /\ args.combine_meshes
    /\ Len(scene) >= 2
    /\ \E p \in DOMAIN json_files :
          json_files[p].complete /\ Len(json_files[p].shapes) = 2

\* C8: a failure of the decomposition service for one group does not abort
\* the run: it is reported, and a finished run has decomposed or reported
\* every group.
C8_DecompositionFailureIsIsolated ==
    /\ panic_cause # "decompose"
    /\ pc = "done" => Len(hull_log) = Len(shape_vec_composed)

\* C9: the extracted vertices are the position streams that are present, in
\* primitive order; the triangles are the consecutive triples of the index
\* streams; a primitive without a position stream adds neither vertices nor
\* triangles.
C9_ExtractionSkipsPositionlessPrimitives ==
    (pc = "returned" /\ call.fn = "ExtractMesh" /\ ~call.ret[1].panicked)
        => LET cs == chunks(ReadIndicesOfPositioned(call.arg), 3)
               full == SelectSeq(cs, LAMBDA c : Len(c) = 3)
           IN  /\ Len(call.ret[1].verts) = PositionCount(call.arg)
               /\ call.ret[1].tris =
                    [k \in 1..Len(full) |-> <<full[k][1], full[k][2], full[k][3]>>]

\* C10: when every primitive's index stream has a length that is a multiple
\* of 3 and refers only to positions of its own primitive, every mesh group
\* has as many vertices as its source meshes' position streams hold, and
\* every index of its triangles is below the group's vertex count.
C10_GroupsKeepVerticesAndIndexRange ==
    (Aggregated /\ \A k \in 1..Len(scene) : WellFormed(scene[k].mesh[1].primitives))
        => \A g \in 1..Len(shape_vec_composed) :
              LET verts == shape_vec_composed[g][1]
                  tris == shape_vec_composed[g][2]
              IN  /\ Len(verts) =
                        IF args.combine_meshes
                        THEN VertexCountUpTo(scene, Len(scene))
                        ELSE PositionCount(scene[g].mesh[1].primitives)
                  /\ \A t \in 1..Len(tris) : \A c \in 1..3 :
                        U32Below(tris[t][c], Len(verts))

\* C10's case: two well-formed meshes with triangles, fused into one group.
C10_Witness ==
    /\ Aggregated
    /\ args.combine_meshes
    /\ Len(scene) = 2
    /\ \A k \in 1..Len(scene) : WellFormed(scene[k].mesh[1].primitives)
    /\ Len(shape_vec_composed) = 1
    /\ Len(shape_vec_composed[1][2]) >= 2
    /\ Len(shape_vec_composed[1][1]) > 3

====
